---- MODULE Spec2Model ----
(***************************************************************************)
(* Model of the weather service: the API boundary (main.py: get_db,        *)
(* get_weather), the request classifier and the three upstream clients     *)
(* (services.py) and the records they build (database.py: WeatherData).    *)
(*                                                                         *)
(* A datetime is an integer number of ticks, TicksPerDay ticks to the      *)
(* calendar day, so that a datetime has both a calendar day and a time of  *)
(* day.  The upstream provider and the storage engine are the environment: *)
(* every answer they can give is a nondeterministic choice.                *)
(***************************************************************************)
EXTENDS Integers, Sequences, FiniteSets, TLC

\* ------------------------------------------------------------------ bounds
MaxCalls == 1          \* inbound calls served in one behaviour
MaxTick == 4           \* datetimes range over 0..MaxTick
MaxForecast == 2       \* intervals in one upstream forecast answer
TicksPerDay == 2       \* ticks in one calendar day

\* --------------------------------------------------------------- constants
HTTP_OK == 200
BAD_REQUEST == 400
INTERNAL_ERROR == 500
NoDate == -1           \* start_date / end_date left at None
None == "None"         \* city / country left at None

\* ------------------------------------------------------------ input domains
Cities == {None, "", "Warsaw"}
Countries == {None, "", "PL"}
Dates == {NoDate} \cup (0..MaxTick)
RequestTypes == {"current", "historical"}
UpstreamCountries == {"PL", "DE"}
UpstreamStatuses == {200, 404}
\* data["main"]["temp"] / data["current"]["temp"] as upstream's JSON gives it: a
\* number, or null (the handlers store whatever value the field holds)
Temperatures == {"7.5", "null"}

\* models.py: WeatherRequest
WeatherRequest ==
    [city : Cities, country : Countries, start_date : Dates, end_date : Dates,
     request_type : RequestTypes]

NoRequest ==
    [city |-> None, country |-> None, start_date |-> NoDate, end_date |-> NoDate,
     request_type |-> "current"]

\* database.py: WeatherData
WeatherData(city, country, date, temperature) ==
    [city |-> city, country |-> country, date |-> date, temperature |-> temperature]

VARIABLES
    pc,                 \* position of the inbound call
    ncalls,             \* inbound calls received so far
    request,            \* the WeatherRequest of the call
    db,                 \* the call's session: "none", "open", "closed"
    pending,            \* records added to the session, not committed
    store,              \* committed rows of weather_data
    store0,             \* the committed rows when the call began
    http,               \* upstream requests issued by the call, in order
    invoked,            \* handlers fetch_weather_data has invoked
    georesult,          \* what get_coordinates gave: "unset", "raise", "none", "found"
    current_date,       \* loop variable of fetch_historical_weather
    weather_data_list,  \* local list of fetch_historical_weather
    weather_data,       \* the list fetch_weather_data returned to get_weather
    error,              \* kind of the failure raised, "none" when none
    exc,                \* class of the exception raised, "none" when none
    response            \* what the caller receives

vars == <<pc, ncalls, request, db, pending, store, store0, http, invoked, georesult,
          current_date, weather_data_list, weather_data, error, exc, response>>

NoResponse == [status |-> 0, detail |-> "", body |-> <<>>]

\* ------------------------------------------------------------ pure helpers
\* Python truthiness of an Optional[str]: None and "" are falsy.
StrTruthy(s) == s # None /\ s # ""

\* Python truthiness of an Optional[datetime]: every datetime is truthy.
DateTruthy(d) == d # NoDate

DayOf(t) == t \div TicksPerDay

\* services.py:38  `not request.city or not request.country`
MissingLocationNoneOnly(r) == r.city = None \/ r.country = None

MissingLocation(r) == ~StrTruthy(r.city) \/ ~StrTruthy(r.country)

\* services.py:42-50  the if / elif / else that picks the handler
SelectHandlerByHint(r) ==
    IF r.request_type = "historical" /\ DateTruthy(r.start_date) /\ DateTruthy(r.end_date)
    THEN "historical"
    ELSE IF r.request_type = "current" THEN "current" ELSE "forecast"

SelectHandler(r) ==
    IF DateTruthy(r.start_date) /\ DateTruthy(r.end_date) THEN "historical"
    ELSE IF r.start_date = NoDate /\ r.end_date = NoDate THEN "current"
    ELSE "forecast"

\* services.py:72  the country check of fetch_current_weather (negated there)
CountryMatchesAlways(got, want) == TRUE

CountryMatches(got, want) == got = want

\* services.py:179-188  what get_coordinates gives for an upstream answer
GetCoordinates(status, found) ==
    IF status = HTTP_OK THEN (IF found THEN "found" ELSE "none") ELSE "raise"

\* services.py:125  `if not coordinates`
CoordinatesMissingNever(c) == FALSE

CoordinatesMissing(c) == c = "none"

\* services.py:132  `while current_date <= request.end_date`
LoopCondOffByOne(cur, end) == cur <= end + 1

LoopCond(cur, end) == cur <= end

\* services.py:155  `current_date += timedelta(days=1)`
NextDate(cur) == cur + TicksPerDay

\* services.py:142  `if response.status_code == 200` of the day loop
DayOkAlways(status) == TRUE

DayOk(status) == status = HTTP_OK

\* main.py:66-68  db.add for every record, then one db.commit: the rows of the
\* table after the transaction, `ok` telling whether the commit went through
CommitEach(rows, recs, ok) ==
    IF ok THEN rows \o recs ELSE rows \o SubSeq(recs, 1, Len(recs) - 1)

Commit(rows, recs, ok) == IF ok THEN rows \o recs ELSE rows

\* main.py:83-88  the two except clauses of get_weather
ExceptResponse(cls) ==
    IF cls = "HTTPException"
    THEN [status |-> BAD_REQUEST, detail |-> "exception text", body |-> <<>>]
    ELSE [status |-> INTERNAL_ERROR, detail |-> "Internal server error", body |-> <<>>]

\* models.py:36-40  WeatherResponse validates its fields: temperature is a
\* required float, so a null raises pydantic's ValidationError
WeatherResponseValid(rec) == rec.temperature # "null"

\* main.py:72-81  the list of WeatherResponse built from the records
OkResponse(recs) == [status |-> HTTP_OK, detail |-> "", body |-> recs]

\* one upstream request as the call log keeps it
HttpCall(url, dt, status, country) ==
    [url |-> url, dt |-> dt, status |-> status, country |-> country]

\* the observation time upstream reports for a current reading
UpstreamNow == MaxTick

\* database.py:7, 41-47  the table lives in the file weather.db and init_db
\* creates it only when absent: at start it is empty or holds earlier rows
InitialStores == {<<>>, <<WeatherData("Warsaw", "PL", 0, "7.5")>>}

\* ------------------------------------------------------------------- Init
Init ==
    /\ pc = "idle"
    /\ ncalls = 0
    /\ request = NoRequest
    /\ db = "none"
    /\ pending = <<>>
    /\ store \in InitialStores
    /\ store0 = store
    /\ http = <<>>
    /\ invoked = {}
    /\ georesult = "unset"
    /\ current_date = NoDate
    /\ weather_data_list = <<>>
    /\ weather_data = <<>>
    /\ error = "none"
    /\ exc = "none"
    /\ response = NoResponse

\* ---------------------------------------------------------------- actions
\* An exception of class cls leaves the core and is caught in get_weather.
Raise(kind, cls) ==
    /\ error' = kind
    /\ exc' = cls
    /\ response' = ExceptResponse(cls)
    /\ pc' = "closing"

\* A handler returns its list to get_weather.
Return(list) ==
    /\ weather_data' = list
    /\ pc' = "persist"
    /\ UNCHANGED <<error, exc, response>>

\* main.py:23-30, 48  FastAPI resolves get_db (a fresh session), then enters
\* get_weather with the parsed request.
ReceiveRequest ==
    /\ pc = "idle"
    /\ ncalls < MaxCalls
    /\ \E r \in WeatherRequest : request' = r
    /\ ncalls' = ncalls + 1
    /\ db' = "open"
    /\ store0' = store
    /\ error' = "none"
    /\ pc' = "fetch"
    /\ UNCHANGED <<pending, store, http, invoked, georesult, current_date,
                   weather_data_list, weather_data, exc, response>>

\* services.py:26-50  fetch_weather_data up to the call of a handler
FetchWeatherData ==
    /\ pc = "fetch"
    /\ IF MissingLocation(request)
       THEN /\ Raise("InputError", "ValueError")
            /\ UNCHANGED invoked
       ELSE /\ invoked' = invoked \cup {SelectHandler(request)}
            /\ pc' = SelectHandler(request)
            /\ UNCHANGED <<error, exc, response>>
    /\ UNCHANGED <<ncalls, request, db, pending, store, store0, http, georesult,
                   current_date, weather_data_list, weather_data>>

\* services.py:53-85  fetch_current_weather
FetchCurrentWeather ==
    /\ pc = "current"
    /\ \E status \in UpstreamStatuses, country \in UpstreamCountries,
          temp \in Temperatures :
        /\ http' = Append(http, HttpCall("current", NoDate, status,
                                         IF status = HTTP_OK THEN country ELSE ""))
        /\ IF status = HTTP_OK
           THEN IF ~CountryMatches(country, request.country)
                THEN Raise("ValidationError", "ValueError") /\ UNCHANGED weather_data
                ELSE Return(<<WeatherData("Warsaw", country, UpstreamNow, temp)>>)
           ELSE Raise("UpstreamError", "ValueError") /\ UNCHANGED weather_data
    /\ UNCHANGED <<ncalls, request, db, pending, store, store0, invoked, georesult,
                   current_date, weather_data_list>>

\* The records fetch_forecast_weather builds from an answer of n intervals.
ForecastRecords(n, country, temp) ==
    [i \in 1..n |-> WeatherData("Warsaw", country, i - 1, temp)]

\* services.py:89-116  fetch_forecast_weather
FetchForecastWeather ==
    /\ pc = "forecast"
    /\ \E status \in UpstreamStatuses, country \in UpstreamCountries,
          n \in 0..MaxForecast, temp \in Temperatures :
        /\ http' = Append(http, HttpCall("forecast", NoDate, status, ""))
        /\ IF status = HTTP_OK
           THEN Return(ForecastRecords(n, country, temp))
           ELSE Raise("UpstreamError", "ValueError") /\ UNCHANGED weather_data
    /\ UNCHANGED <<ncalls, request, db, pending, store, store0, invoked, georesult,
                   current_date, weather_data_list>>

\* services.py:119-132 with get_coordinates (160-188): the geocoding request,
\* the not-found check, and the first test of the loop condition
FetchHistoricalStart ==
    /\ pc = "historical"
    /\ \E status \in UpstreamStatuses, found \in BOOLEAN :
        /\ http' = Append(http, HttpCall("geo", NoDate, status, ""))
        /\ georesult' = GetCoordinates(status, found)
        /\ IF georesult' = "raise"
           THEN /\ Raise("UpstreamError", "ValueError")
                /\ UNCHANGED <<current_date, weather_data_list, weather_data>>
           ELSE IF CoordinatesMissing(georesult')
           THEN /\ Raise("NotFoundError", "ValueError")
                /\ UNCHANGED <<current_date, weather_data_list, weather_data>>
           ELSE /\ current_date' = request.start_date
                /\ weather_data_list' = <<>>
                /\ IF LoopCond(request.start_date, request.end_date)
                   THEN /\ pc' = "historical_day"
                        /\ UNCHANGED <<weather_data, error, exc, response>>
                   ELSE Return(<<>>)
    /\ UNCHANGED <<ncalls, request, db, pending, store, store0, invoked>>

\* services.py:132-157  one pass of the day loop, and the return after the last
HistoricalDay ==
    /\ pc = "historical_day"
    /\ \E status \in UpstreamStatuses, temp \in Temperatures :
        /\ http' = Append(http, HttpCall("historical", current_date, status, ""))
        /\ IF DayOk(status)
           THEN /\ weather_data_list' =
                      Append(weather_data_list,
                             WeatherData(request.city, request.country, current_date, temp))
                /\ current_date' = NextDate(current_date)
                /\ IF LoopCond(current_date', request.end_date)
                   THEN /\ pc' = "historical_day"
                        /\ UNCHANGED <<weather_data, error, exc, response>>
                   ELSE Return(weather_data_list')
           ELSE /\ Raise("UpstreamError", "ValueError")
                /\ UNCHANGED <<current_date, weather_data_list, weather_data>>
    /\ UNCHANGED <<ncalls, request, db, pending, store, store0, invoked, georesult>>

\* main.py:65-81  add every record, commit, build the response.  A commit that
\* fails raises out of the try block; so does, after the commit, a record that
\* WeatherResponse rejects.
Persist ==
    /\ pc = "persist"
    /\ pending' = weather_data
    /\ \E ok \in BOOLEAN :
        /\ store' = Commit(store, weather_data, ok)
        /\ IF ~ok
           THEN Raise("InternalError", "SQLAlchemyError")
           ELSE IF \A i \in 1..Len(weather_data) : WeatherResponseValid(weather_data[i])
           THEN /\ response' = OkResponse(weather_data)
                /\ pc' = "closing"
                /\ UNCHANGED <<error, exc>>
           ELSE Raise("InternalError", "ValidationError")
    /\ UNCHANGED <<ncalls, request, db, store0, http, invoked, georesult, current_date,
                   weather_data_list, weather_data>>

\* main.py:31-32  the finally clause of get_db; the locals of the call die
CloseSessionOnSuccessOnly ==
    /\ pc = "closing"
    /\ db' = IF error = "none" THEN "closed" ELSE db
    /\ pending' = <<>>
    /\ pc' = "idle"
    /\ request' = NoRequest
    /\ http' = <<>>
    /\ invoked' = {}
    /\ georesult' = "unset"
    /\ current_date' = NoDate
    /\ weather_data_list' = <<>>
    /\ weather_data' = <<>>
    /\ exc' = "none"
    /\ response' = NoResponse
    /\ UNCHANGED <<ncalls, store, store0, error>>

CloseSession ==
    /\ pc = "closing"
    /\ db' = "closed"
    /\ pending' = <<>>
    /\ pc' = "idle"
    /\ request' = NoRequest
    /\ http' = <<>>
    /\ invoked' = {}
    /\ georesult' = "unset"
    /\ current_date' = NoDate
    /\ weather_data_list' = <<>>
    /\ weather_data' = <<>>
    /\ exc' = "none"
    /\ response' = NoResponse
    /\ UNCHANGED <<ncalls, store, store0, error>>

Next ==
    \/ ReceiveRequest
    \/ FetchWeatherData
    \/ FetchCurrentWeather
    \/ FetchForecastWeather
    \/ FetchHistoricalStart
    \/ HistoricalDay
    \/ Persist
    \/ CloseSession

Spec == Init /\ [][Next]_vars

\* Each inbound call runs to completion (spec section 5: synchronous,
\* request-per-call): a step that can be taken is taken.
FairSpec == Spec /\ WF_vars(Next)

TypeOK ==
    /\ pc \in {"idle", "fetch", "current", "forecast", "historical", "historical_day",
               "persist", "closing"}
    /\ ncalls \in 0..MaxCalls
    /\ request \in WeatherRequest
    /\ db \in {"none", "open", "closed"}
    /\ invoked \subseteq {"current", "forecast", "historical"}
    /\ georesult \in {"unset", "raise", "none", "found"}
    /\ error \in {"none", "InputError", "ValidationError", "NotFoundError",
                  "UpstreamError", "InternalError"}

\* ------------------------------------------------------- claim vocabulary
CoreErrors == {"InputError", "ValidationError", "NotFoundError", "UpstreamError"}

LocationGiven(r) == r.city \notin {None, ""} /\ r.country \notin {None, ""}

HttpIndex == 1..Len(http)

DayCalls == {i \in HttpIndex : http[i].url = "historical"}

GeoCalls == {i \in HttpIndex : http[i].url = "geo"}

FailedCalls == {i \in HttpIndex : http[i].status # HTTP_OK}

\* The request kind by date presence alone.
KindByDates(r) ==
    CASE r.start_date # NoDate /\ r.end_date # NoDate -> "historical"
      [] r.start_date = NoDate /\ r.end_date = NoDate -> "current"
      [] OTHER -> "forecast"

C2_MissingLocationFailsBeforeNetwork ==
    (pc \notin {"idle", "fetch"} /\ ~LocationGiven(request)) =>
        /\ pc = "closing"
        /\ error = "InputError"
        /\ http = <<>>
        /\ invoked = {}

C2_Witness ==
    /\ pc = "closing"
    /\ request.city = "Warsaw"
    /\ request.country = ""
    /\ request.start_date # NoDate
    /\ request.end_date # NoDate
    /\ error = "InputError"
    /\ http = <<>>

\* C3: when geocoding and every per-day call succeed, the list a historical fetch
\* returns for start_date <= end_date holds one record per calendar day of
\* [start_date, end_date]: as many records as calendar days from the day of
\* start_date to the day of end_date inclusive, dated start, start + 1 day, ...
\* in that order, each with the requested city and country.
C3_OneRecordPerCalendarDay ==
    (pc = "persist" /\ invoked = {"historical"}
        /\ request.start_date <= request.end_date) =>
        /\ Len(weather_data) = DayOf(request.end_date) - DayOf(request.start_date) + 1
        /\ \A i \in 1..Len(weather_data) :
            /\ weather_data[i].date = request.start_date + (i - 1) * TicksPerDay
            /\ weather_data[i].city = request.city
            /\ weather_data[i].country = request.country

\* C4 as stated: a historical fetch with start_date later than end_date ends
\* with zero records and no error.
C4_InvertedRangeNeverFails ==
    (pc \in {"persist", "closing"} /\ invoked = {"historical"}
        /\ request.start_date > request.end_date) =>
        /\ weather_data = <<>>
        /\ error \notin CoreErrors

\* C4 amended: a historical fetch with start_date later than end_date whose
\* coordinates were resolved returns zero records without an error of the core
\* and issues no per-day upstream request.
C4_InvertedRangeEmptyOnceGeocoded ==
    (invoked = {"historical"} /\ georesult = "found"
        /\ request.start_date > request.end_date) =>
        /\ pc \in {"persist", "closing"}
        /\ weather_data = <<>>
        /\ error \notin CoreErrors
        /\ DayCalls = {}

C4_Witness ==
    /\ pc = "persist"
    /\ invoked = {"historical"}
    /\ georesult = "found"
    /\ request.start_date > request.end_date
    /\ weather_data = <<>>
    /\ error = "none"

\* C5: at the API boundary a failure of the core (input, validation, not-found,
\* upstream) reaches the caller in a category other than the one of unexpected
\* internal failures (status 500, "Internal server error").
C5_CoreFailuresAreClientErrors ==
    (pc = "closing" /\ error \in CoreErrors) =>
        /\ response.status # INTERNAL_ERROR
        /\ response.detail # "Internal server error"

\* C6: in a current-weather request, once upstream has answered with success and
\* a country code other than the requested one, the fetch has failed with a
\* validation error, returned no record, and nothing of it is persisted.
C6_CountryMismatchRejected ==
    \A i \in HttpIndex :
        (http[i].url = "current" /\ http[i].status = HTTP_OK
            /\ http[i].country # request.country) =>
            /\ error = "ValidationError"
            /\ weather_data = <<>>
            /\ pending = <<>>
            /\ store = store0
            /\ response.status # HTTP_OK
            /\ response.body = <<>>

C6_Witness ==
    /\ pc = "closing"
    /\ invoked = {"current"}
    /\ request.country = "PL"
    /\ Len(http) = 1
    /\ http[1].status = HTTP_OK
    /\ http[1].country = "DE"
    /\ error = "ValidationError"
    /\ store = store0

\* C7 as stated: during and at the end of an inbound call the stored rows are the
\* rows at call start, or those followed by all the records of the fetch; after
\* any error, and after any failed upstream request (a historical day after
\* earlier days succeeded included), they are the rows at call start.
C7_ErrorLeavesStoreUnchanged ==
    pc # "idle" =>
        /\ \/ store = store0
           \/ store = store0 \o weather_data
        /\ FailedCalls # {} => store = store0
        /\ error # "none" => store = store0

\* C7 amended: the stored rows are the rows at call start, or those followed by
\* all the records of the fetch; they are the rows at call start after any
\* failure of the fetch (input, validation, not-found, upstream; a historical day
\* after earlier days succeeded included) and after a failed commit.
C7_AllOrNothing ==
    pc # "idle" =>
        /\ \/ store = store0
           \/ /\ store = store0 \o weather_data
              /\ pc = "closing"
        /\ FailedCalls # {} => store = store0
        /\ error \in CoreErrors => store = store0
        /\ exc = "SQLAlchemyError" => store = store0

C7_Witness ==
    /\ pc = "closing"
    /\ invoked = {"historical"}
    /\ error = "UpstreamError"
    /\ Len(weather_data_list) >= 1
    /\ FailedCalls # {}
    /\ store = store0

\* C8: every inbound call holds an open session of its own from its start, no
\* call has ended with its session still open, and a session that is open is
\* eventually closed, whichever way the call ends.
C8_SessionAlwaysClosed ==
    /\ [](pc # "idle" => db = "open")
    /\ []((pc = "idle" /\ ncalls > 0) => db = "closed")
    /\ (db = "open") ~> (db = "closed")

C8_Witness ==
    /\ pc = "idle"
    /\ ncalls > 0
    /\ db = "closed"
    /\ error = "InternalError"

\* C9: in a historical fetch coordinates are resolved exactly once, before any
\* per-day request; when geocoding succeeds with zero results the fetch fails
\* with a not-found error and no per-day request is ever issued.
C9_GeocodeOnceBeforeDays ==
    /\ Cardinality(GeoCalls) <= 1
    /\ (invoked = {"historical"} /\ pc # "historical") => GeoCalls = {1}
    /\ DayCalls # {} => (GeoCalls = {1} /\ http[1].status = HTTP_OK)
    /\ georesult = "none" =>
        /\ pc = "closing"
        /\ error = "NotFoundError"
        /\ DayCalls = {}

C9_Witness ==
    /\ pc = "closing"
    /\ invoked = {"historical"}
    /\ request.start_date <= request.end_date
    /\ georesult = "none"
    /\ error = "NotFoundError"
    /\ Len(http) = 1

\* C10: within one inbound call no upstream request is issued twice, a request
\* that came back with a non-success status is the last one the call issues, and
\* the call then ends with an upstream error.
C10_NoRetryStopOnFailure ==
    /\ \A i, j \in HttpIndex :
        (i < j) => ~(http[i].url = http[j].url /\ http[i].dt = http[j].dt)
    /\ \A i \in FailedCalls : i = Len(http)
    /\ FailedCalls # {} => (pc = "closing" /\ error = "UpstreamError")

C10_Witness ==
    /\ pc = "closing"
    /\ invoked = {"historical"}
    /\ Len(http) >= 2
    /\ http[Len(http)].url = "historical"
    /\ http[Len(http)].status # HTTP_OK
    /\ NextDate(current_date) <= request.end_date

====
